---- MODULE Spec2Model ----
(***************************************************************************)
(* Verification model of imangor-api: the credit ledger (CreditService),   *)
(* the sliding-window rate limiter (RateLimitMiddleware) and the anonymous *)
(* device quota (DeviceTrackingService / upload_image).                    *)
(*                                                                         *)
(* Time is the integer number of seconds since the service was started.    *)
(* Credit amounts are integers (whole credits).                            *)
(***************************************************************************)
EXTENDS Integers, Sequences, FiniteSets, TLC

\* ------------------------------------------------------------------------
\* Program constants
\* ------------------------------------------------------------------------
FREE_CREDITS_NEW_USER == 5
CREDIT_EXPIRY_MONTHS == 6
ANONYMOUS_IMAGE_LIMIT == 3
ANONYMOUS_RATE_LIMIT == 10
AUTHENTICATED_RATE_LIMIT == 100
window == 60
days_old == 90
SecondsPerDay == 86400
CREDIT_COST_SMALL == 1
WEBHOOK_MAX_RETRIES == 3

\* timedelta(days=30 * settings.CREDIT_EXPIRY_MONTHS), in seconds
CreditLifetime == 30 * CREDIT_EXPIRY_MONTHS * SecondsPerDay

\* SQL NULL of a nullable integer or timestamp column (expires_at,
\* last_seen, device_fingerprint_id, ...)
NULL == -1

\* ------------------------------------------------------------------------
\* Bounds of the model
\* ------------------------------------------------------------------------
MaxLedger == 3
MaxLedgerTicks == 1

Accounts == {"u1", "u2"}
Procs == {"p1", "p2"}
DeductAmounts == {2, 3}
CreditAmounts == {2}
LedgerDeltas == {CreditLifetime, CreditLifetime + 1}

CreditAdding == {"purchase", "bonus", "refund"}

\* rate limiter: the configured limits, the identity keys, the clock steps
MaxRequests == 5
MaxRateTicks == 3
AnonLimits == {1, 2}
AuthLimits == {3}
IpKeys == {"rate_limit:ip:10.0.0.1"}
UserKeys == {"rate_limit:user:u1"}
Keys == IpKeys \cup UserKeys
RateDeltas == {1, window + 1}

\* device quota: the device signals (by their hash), the concurrent requests
MaxJobs == 4
MaxDeviceTicks == 1
Hashes == {"h1"}
Uploads == {"r1", "r2"}

\* translation jobs: the job ids, the error texts and output references
MaxJobTicks == 1
JobIds == {"j1"}
JobStatus == {"pending", "processing", "completed", "failed", "cancelled"}
None == "None"
ErrorMessages == {None, "OCR failed"}
OutputUrls == {None, "translations/j1/output.png"}

\* image processing: the uploading accounts, the file sizes (MB), the
\* webhook targets, the answers of a webhook target (NoResponse: the POST
\* raised a timeout or a connection error)
MaxTasks == 1
Uploaders == {"u1"}
FileSizesMb == {1, 10}
WebhookUrls == {None, "https://client.example/hook"}
NoResponse == 0
Responses == {200, 204, 500, NoResponse}

\* payments: the paying accounts, the credits of the packages offered,
\* the transaction references, the events and the secrets a sender may use
MaxPayLedger == 4
Payers == {"u1"}
PackageCredits == {10}
TxRefs == {"tx1"}
UnknownRefs == {"tx9"}
Events == {"charge.completed", "charge.failed", "transfer.completed"}
FLUTTERWAVE_WEBHOOK_SECRET == "whsec"
OtherSecrets == {"guess"}
PayDeductAmounts == {3}
Handlers == {"w1", "w2"}

VARIABLES
    now,        \* the clock (datetime.now / time.time), in seconds
    users,      \* table users: id -> row
    ledger,     \* table credit_transactions, in insertion order (id = index)
    ticks,      \* number of clock advances made so far
    dpc,        \* position of each deduct_credits call
    dcall,      \* locals of each deduct_credits call
    dres,       \* outcome of the last finished deduct_credits call of each caller
    settings,   \* the rate-limit settings the process was started with
    zset,       \* Redis: key -> sorted set of request timestamps
    ttl,        \* Redis: key -> time at which the key expires (NULL: none)
    rlog,       \* per key, the times of the requests the limiter let through
    rlast,      \* per key, the last two requests seen: time and status
    requests,   \* number of requests the limiter has handled
    fingerprints, \* table device_fingerprints: fingerprint_hash -> row
    jobs,       \* table image_jobs, in insertion order
    next_id,    \* the next fresh primary key (uuid4) of device_fingerprints
    upc,        \* position of each anonymous upload_image request
    ucall,      \* locals of each anonymous upload_image request
    ures,       \* outcome of the last finished upload_image request
    served,     \* per fingerprint hash, the number of jobs ever accepted
    translation_jobs, \* table jobs (models/job.py): id -> row
    jres,       \* what the last update_job_status call returned, per job id
    task_state, \* per job id, how its last worker task delivery ended
    image_status, \* table image_jobs, the processing columns: job index -> row
    background, \* the background tasks added by add_task, in order
    apc,        \* position of each authenticated upload_image request
    acall,      \* locals of each authenticated upload_image request
    ares,       \* outcome of the last finished authenticated upload_image
    purchases,  \* credit_transactions.flutterwave_tx_ref: tx_ref -> entry
    hook,       \* the last payment webhook request and its response
    handlers    \* position and locals of each handle_successful_payment run

ledgerVars == <<users, ledger, dpc, dcall, dres>>
rateVars == <<settings, zset, ttl, rlog, rlast, requests>>
deviceVars == <<fingerprints, jobs, next_id, upc, ucall, ures, served>>
jobVars == <<translation_jobs, jres, task_state>>
imageVars == <<image_status, background, apc, acall, ares>>
payVars == <<purchases, hook, handlers>>
backendVars == <<jobVars, imageVars, payVars>>
vars == <<now, ticks, ledgerVars, rateVars, deviceVars, backendVars>>

\* ------------------------------------------------------------------------
\* Helpers
\* ------------------------------------------------------------------------
RECURSIVE SumAmounts(_, _)
SumAmounts(L, idx) ==
    IF idx = {} THEN 0
    ELSE LET i == CHOOSE j \in idx : TRUE
         IN L[i].credits_amount + SumAmounts(L, idx \ {i})

Abs(x) == IF x < 0 THEN -x ELSE x
Max(a, b) == IF a >= b THEN a ELSE b

\* a row of credit_transactions
Entry(u, type, status, amount, exp, src) ==
    [user_id |-> u, transaction_type |-> type, status |-> status,
     credits_amount |-> amount, expires_at |-> exp, descr_tx |-> src]

\* a row of users
NewUser == [credits_balance |-> 0, total_credits_purchased |-> 0,
            total_credits_used |-> 0]

\* ------------------------------------------------------------------------
\* CreditService.get_user_credits
\* ------------------------------------------------------------------------
\* credit_additions without the expiry filter of the query
credit_additions_any_expiry(L, u, t) ==
    {i \in DOMAIN L :
        /\ L[i].user_id = u
        /\ L[i].transaction_type \in CreditAdding
        /\ L[i].status = "completed"}

\* rows of the first query: Completed credit additions with expires_at > now.
\* In SQL a NULL expires_at makes the comparison NULL, and the row is dropped.
credit_additions(L, u, t) ==
    {i \in DOMAIN L :
        /\ L[i].user_id = u
        /\ L[i].transaction_type \in CreditAdding
        /\ L[i].status = "completed"
        /\ L[i].expires_at # NULL
        /\ L[i].expires_at > t}

\* the debits with the Penalty entries counted among them
usage_and_penalty_rows(L, u) ==
    {i \in DOMAIN L :
        /\ L[i].user_id = u
        /\ L[i].transaction_type \in {"usage", "penalty"}
        /\ L[i].status = "completed"}

\* rows of the second query: Completed Usage entries
usage_rows(L, u) ==
    {i \in DOMAIN L :
        /\ L[i].user_id = u
        /\ L[i].transaction_type = "usage"
        /\ L[i].status = "completed"}

\* Query.scalar(): None for no row (none is TRUE), the first column of the
\* only row, and MultipleResultsFound when the query returns more than one
\* row.
scalar(L, rows) ==
    IF rows = {} THEN [raised |-> FALSE, none |-> TRUE, val |-> 0]
    ELSE IF Cardinality(rows) = 1
         THEN [raised |-> FALSE, none |-> FALSE,
               val |-> L[CHOOSE i \in rows : TRUE].credits_amount]
         ELSE [raised |-> TRUE, none |-> FALSE, val |-> 0]

\* the difference returned as it is, without max(0, ...)
ClampOff(x) == x

\* available_credits = max(0, total_available - abs(total_used))
Clamp(x) == Max(0, x)

\* the computation with the rows that are not Completed counted as well
get_user_credits_any_status(U, L, u, t) ==
    IF u \notin DOMAIN U THEN [raised |-> FALSE, val |-> 0]
    ELSE LET unfinished == {i \in DOMAIN L :
                               /\ L[i].user_id = u
                               /\ L[i].transaction_type \in CreditAdding
                               /\ L[i].status # "completed"}
             total_available ==
                 SumAmounts(L, credit_additions(L, u, t) \cup unfinished)
             s == scalar(L, usage_rows(L, u))
             total_used == IF s.none THEN 0 ELSE s.val
         IN IF s.raised THEN [raised |-> TRUE, val |-> 0]
            ELSE [raised |-> FALSE, val |-> Clamp(total_available - Abs(total_used))]

\* the value get_user_credits returns: [raised, val]
get_user_credits(U, L, u, t) ==
    IF u \notin DOMAIN U THEN [raised |-> FALSE, val |-> 0]
    ELSE LET total_available == SumAmounts(L, credit_additions(L, u, t))
             s == scalar(L, usage_rows(L, u))
             total_used == IF s.none THEN 0 ELSE s.val
         IN IF s.raised THEN [raised |-> TRUE, val |-> 0]
            ELSE [raised |-> FALSE, val |-> Clamp(total_available - Abs(total_used))]

\* the users table after get_user_credits: the cached balance is overwritten
\* when a value is computed
UsersAfterGet(U, L, u, t) ==
    LET r == get_user_credits(U, L, u, t)
    IN IF u \in DOMAIN U /\ ~r.raised
       THEN [U EXCEPT ![u].credits_balance = r.val]
       ELSE U

\* ------------------------------------------------------------------------
\* Initial state: empty tables, no call in progress
\* ------------------------------------------------------------------------
NoCall == [user_id |-> "", amount |-> 0, available |-> 0, seen |-> 0]
NoResult == [outcome |-> "none", user_id |-> "", amount |-> 0,
             required |-> 0, available |-> 0, seen |-> 0, idx |-> 0]

NoRequest == [time |-> NULL, status |-> 0, prev_time |-> NULL, prev_status |-> 0]
NoUpload == [hash |-> "", id |-> 0, images_processed |-> 0]
NoOutcome == [outcome |-> "none", hash |-> ""]
NoTask == [outcome |-> "none", cause |-> "none", on_failure |-> "none"]
NoAuthUpload == [user_id |-> "", cost |-> 0, webhook_url |-> "None", job |-> 0]
NoAuthOutcome == [outcome |-> "none", job |-> 0]
NoHandler == [pc |-> "idle", tx_ref |-> "None", tx |-> 0]
NoHook == [status_code |-> 0, detail |-> "none", parsed |-> FALSE,
           event |-> "", tx_ref |-> "None"]

InitBase ==
    /\ now = 0
    /\ ticks = 0
    /\ users = << >>
    /\ ledger = << >>
    /\ dpc = [p \in Procs |-> "idle"]
    /\ dcall = [p \in Procs |-> NoCall]
    /\ dres = [p \in Procs |-> NoResult]
    /\ zset = [k \in Keys |-> {}]
    /\ ttl = [k \in Keys |-> NULL]
    /\ rlog = [k \in Keys |-> << >>]
    /\ rlast = [k \in Keys |-> NoRequest]
    /\ requests = 0
    /\ fingerprints = << >>
    /\ jobs = << >>
    /\ next_id = 1
    /\ upc = [r \in Uploads |-> "idle"]
    /\ ucall = [r \in Uploads |-> NoUpload]
    /\ ures = [r \in Uploads |-> NoOutcome]
    /\ served = [h \in Hashes |-> 0]
    /\ translation_jobs = << >>
    /\ jres = [j \in JobIds |-> "none"]
    /\ task_state = [j \in JobIds |-> NoTask]
    /\ image_status = << >>
    /\ background = << >>
    /\ apc = [r \in Uploads |-> "idle"]
    /\ acall = [r \in Uploads |-> NoAuthUpload]
    /\ ares = [r \in Uploads |-> NoAuthOutcome]
    /\ purchases = << >>
    /\ hook = NoHook
    /\ handlers = [h \in Handlers |-> NoHandler]

\* the service started with the default settings
Init ==
    /\ InitBase
    /\ settings = [ANONYMOUS_RATE_LIMIT |-> ANONYMOUS_RATE_LIMIT,
                   AUTHENTICATED_RATE_LIMIT |-> AUTHENTICATED_RATE_LIMIT]

\* the service started with limits set in its environment
InitRate ==
    /\ InitBase
    /\ settings \in [ANONYMOUS_RATE_LIMIT : AnonLimits,
                      AUTHENTICATED_RATE_LIMIT : AuthLimits]

\* ------------------------------------------------------------------------
\* CreditService.add_credits
\* ------------------------------------------------------------------------
\* the entry add_credits inserts: always a Completed BONUS expiring
\* 30 * CREDIT_EXPIRY_MONTHS days from now
added_entry(u, amount, t) ==
    Entry(u, "bonus", "completed", amount, t + CreditLifetime, 0)

\* the user row after add_credits
added_user(row, amount) ==
    [row EXCEPT !.total_credits_purchased = @ + amount,
                !.credits_balance = @ + amount]

add_credits(u, amount) ==
    /\ u \in DOMAIN users
    /\ Len(ledger) < MaxLedger
    /\ ledger' = Append(ledger, added_entry(u, amount, now))
    /\ users' = [users EXCEPT ![u] = added_user(@, amount)]
    /\ UNCHANGED <<backendVars, now, ticks, dpc, dcall, dres, rateVars, deviceVars>>

\* AuthService.get_or_create_user for a new identity: the user row is
\* inserted and the welcome bonus is added
get_or_create_user(u) ==
    /\ u \notin DOMAIN users
    /\ Len(ledger) < MaxLedger
    /\ ledger' = Append(ledger, added_entry(u, FREE_CREDITS_NEW_USER, now))
    /\ users' = [v \in DOMAIN users \cup {u} |->
                    IF v = u THEN added_user(NewUser, FREE_CREDITS_NEW_USER)
                    ELSE users[v]]
    /\ UNCHANGED <<backendVars, now, ticks, dpc, dcall, dres, rateVars, deviceVars>>

\* GET /payments/balance: get_user_credits called on its own
get_credit_balance(u) ==
    /\ u \in DOMAIN users
    /\ users' = UsersAfterGet(users, ledger, u, now)
    /\ users' # users
    /\ UNCHANGED <<backendVars, now, ticks, ledger, dpc, dcall, dres, rateVars, deviceVars>>

\* ------------------------------------------------------------------------
\* CreditService.deduct_credits, in two steps: the balance check (which
\* commits), then the insert of the debit entry (a second transaction)
\* ------------------------------------------------------------------------
\* a request for exactly the available amount refused as well
insufficient_inclusive(available, amount) == available <= amount

\* if available < amount: raise ValueError("Insufficient credits ...")
insufficient(available, amount) == available < amount

deduct_check(p, u, amount) ==
    /\ dpc[p] = "idle"
    /\ u \in DOMAIN users
    /\ LET r == get_user_credits(users, ledger, u, now)
       IN /\ users' = UsersAfterGet(users, ledger, u, now)
          /\ IF r.raised
             THEN /\ dres' = [dres EXCEPT ![p] =
                        [outcome |-> "MultipleResultsFound", user_id |-> u,
                         amount |-> amount, required |-> 0, available |-> 0,
                         seen |-> Len(ledger), idx |-> 0]]
                  /\ UNCHANGED <<dpc, dcall>>
             ELSE IF insufficient(r.val, amount)
             THEN /\ dres' = [dres EXCEPT ![p] =
                        [outcome |-> "InsufficientCredits", user_id |-> u,
                         amount |-> amount, required |-> amount,
                         available |-> r.val, seen |-> Len(ledger), idx |-> 0]]
                  /\ UNCHANGED <<dpc, dcall>>
             ELSE /\ dpc' = [dpc EXCEPT ![p] = "insert"]
                  /\ dcall' = [dcall EXCEPT ![p] =
                        [user_id |-> u, amount |-> amount,
                         available |-> r.val, seen |-> Len(ledger)]]
                  /\ UNCHANGED dres
    /\ UNCHANGED <<backendVars, now, ticks, ledger, rateVars, deviceVars>>

\* the Usage entry deduct_credits inserts: negative amount, no expiry
debit_entry(u, amount) ==
    Entry(u, "usage", "completed", -amount, NULL, 0)

deduct_insert(p) ==
    /\ dpc[p] = "insert"
    /\ Len(ledger) < MaxLedger
    /\ LET u == dcall[p].user_id
           amount == dcall[p].amount
       IN /\ ledger' = Append(ledger, debit_entry(u, amount))
          /\ users' = [users EXCEPT
                ![u].total_credits_used = @ + amount,
                ![u].credits_balance = @ - amount]
          /\ dres' = [dres EXCEPT ![p] =
                [outcome |-> "ok", user_id |-> u, amount |-> amount,
                 required |-> amount, available |-> dcall[p].available,
                 seen |-> dcall[p].seen, idx |-> Len(ledger) + 1]]
    /\ dpc' = [dpc EXCEPT ![p] = "idle"]
    /\ dcall' = [dcall EXCEPT ![p] = NoCall]
    /\ UNCHANGED <<backendVars, now, ticks, rateVars, deviceVars>>

\* ------------------------------------------------------------------------
\* CreditService.expire_old_credits (task process_credit_expiry)
\* ------------------------------------------------------------------------
expired_transactions(L, t) ==
    {i \in DOMAIN L :
        /\ L[i].expires_at # NULL
        /\ L[i].expires_at <= t
        /\ L[i].transaction_type \in CreditAdding
        /\ L[i].status = "completed"}

\* the ledger after a Penalty entry was added for each row of idx
RECURSIVE AddPenalties(_, _)
AddPenalties(L, idx) ==
    IF idx = {} THEN L
    ELSE LET i == CHOOSE j \in idx : \A k \in idx : j <= k
         IN AddPenalties(
                Append(L, Entry(L[i].user_id, "penalty", "completed",
                                -L[i].credits_amount, NULL, i)),
                idx \ {i})

expire_old_credits ==
    /\ expired_transactions(ledger, now) # {}
    /\ Len(ledger) + Cardinality(expired_transactions(ledger, now)) <= MaxLedger
    /\ ledger' = AddPenalties(ledger, expired_transactions(ledger, now))
    /\ UNCHANGED <<backendVars, now, ticks, users, dpc, dcall, dres, rateVars, deviceVars>>

\* ------------------------------------------------------------------------
\* The clock
\* ------------------------------------------------------------------------
LedgerTick(d) ==
    /\ ticks < MaxLedgerTicks
    /\ now' = now + d
    /\ ticks' = ticks + 1
    /\ UNCHANGED <<backendVars, ledgerVars, rateVars, deviceVars>>

\* ------------------------------------------------------------------------
\* Specifications
\* ------------------------------------------------------------------------
\* the debit path alone: accounts, credits and concurrent deductions
NextDebit ==
    \/ \E u \in Accounts : get_or_create_user(u)
    \/ \E u \in Accounts, a \in CreditAmounts : add_credits(u, a)
    \/ \E p \in Procs, u \in Accounts, a \in DeductAmounts : deduct_check(p, u, a)
    \/ \E p \in Procs : deduct_insert(p)

SpecDebit == Init /\ [][NextDebit]_vars

\* the ledger over time: one caller at a time, the clock and the expiry task
NextLedger ==
    \/ \E u \in Accounts : get_or_create_user(u)
    \/ \E u \in Accounts, a \in CreditAmounts : add_credits(u, a)
    \/ \E u \in Accounts : get_credit_balance(u)
    \/ \E u \in Accounts, a \in DeductAmounts : deduct_check("p1", u, a)
    \/ deduct_insert("p1")
    \/ expire_old_credits
    \/ \E d \in LedgerDeltas : LedgerTick(d)

SpecLedger == Init /\ [][NextLedger]_vars

\* ------------------------------------------------------------------------
\* Properties of the ledger
\* ------------------------------------------------------------------------
\* The balance the ledger contract defines: Completed credit-adding entries
\* that are not expired, minus the absolute amounts of all Completed debit
\* entries (Usage and Penalty).
ContractBalance(L, u, t) ==
    LET adds == {i \in DOMAIN L :
                    /\ L[i].user_id = u
                    /\ L[i].transaction_type \in CreditAdding
                    /\ L[i].status = "completed"
                    /\ (L[i].expires_at = NULL \/ L[i].expires_at > t)}
        debits == {i \in DOMAIN L :
                    /\ L[i].user_id = u
                    /\ L[i].transaction_type \in {"usage", "penalty"}
                    /\ L[i].status = "completed"}
    IN SumAmounts(L, adds) - Abs(SumAmounts(L, debits))

\* the ledger without its i-th row
RemoveAt(L, i) == [j \in 1..(Len(L) - 1) |-> IF j < i THEN L[j] ELSE L[j + 1]]

\* C1: of two concurrent deduct_credits calls on one account that both saw
\* a balance covering either amount but not the sum, at most one inserts
\* its debit entry; both never succeed.
C1_OnlyOneConcurrentDeductSucceeds ==
    \A p \in Procs, q \in Procs :
        ~ /\ p # q
          /\ dres[p].outcome = "ok"
          /\ dres[q].outcome = "ok"
          /\ dres[p].user_id = dres[q].user_id
          /\ dres[p].seen < dres[q].idx
          /\ dres[q].seen < dres[p].idx
          /\ dres[p].available = dres[q].available
          /\ dres[p].amount <= dres[p].available
          /\ dres[q].amount <= dres[q].available
          /\ dres[p].amount + dres[q].amount > dres[p].available

\* C2: whenever get_user_credits returns a value for an account, the value
\* is >= 0.
C2_BalanceNeverNegative ==
    \A u \in Accounts :
        LET r == get_user_credits(users, ledger, u, now)
        IN ~r.raised => r.val >= 0

\* a state in which the account's usage exceeds its unexpired credits and
\* get_user_credits still returns a value
C2_Witness ==
    \E u \in DOMAIN users :
        /\ ~get_user_credits(users, ledger, u, now).raised
        /\ usage_rows(ledger, u) # {}
        /\ SumAmounts(ledger, credit_additions(ledger, u, now))
             < Abs(SumAmounts(ledger, usage_rows(ledger, u)))

\* C3: get_user_credits returns, for every account, exactly the contract
\* balance: unexpired Completed credit additions minus the absolute amounts
\* of all Completed debit entries, and 0 for an account without entries.
C3_BalanceIsLedgerSum ==
    \A u \in Accounts :
        get_user_credits(users, ledger, u, now)
            = [raised |-> FALSE, val |-> ContractBalance(ledger, u, now)]

\* the Completed credit-adding entries whose expiry is in the past
ExpiredAdditions(L, t) ==
    {i \in DOMAIN L :
        /\ L[i].transaction_type \in CreditAdding
        /\ L[i].status = "completed"
        /\ L[i].expires_at # NULL
        /\ L[i].expires_at <= t}

\* C4: an expired Completed credit-adding entry contributes 0 to
\* get_user_credits: the result is the one computed without that entry,
\* before and after expire_old_credits has run.
C4_ExpiredEntryContributesNothing ==
    \A i \in ExpiredAdditions(ledger, now) :
        get_user_credits(users, ledger, ledger[i].user_id, now)
            = get_user_credits(users, RemoveAt(ledger, i), ledger[i].user_id, now)

\* an account with an expired entry that expire_old_credits has offset and
\* an unexpired entry, so that its balance is positive
C4_Witness ==
    \E i \in ExpiredAdditions(ledger, now) :
        /\ \E j \in DOMAIN ledger :
              ledger[j].transaction_type = "penalty" /\ ledger[j].descr_tx = i
        /\ ~get_user_credits(users, ledger, ledger[i].user_id, now).raised
        /\ get_user_credits(users, ledger, ledger[i].user_id, now).val > 0

\* C5: expire_old_credits is idempotent: every expired credit-adding entry
\* is offset by at most one Penalty entry.
C5_AtMostOnePenaltyPerEntry ==
    \A i \in DOMAIN ledger :
        Cardinality({j \in DOMAIN ledger :
                        /\ ledger[j].transaction_type = "penalty"
                        /\ ledger[j].descr_tx = i}) <= 1

\* C6: a deduct_credits call for more than the available balance fails
\* reporting the required and the available amount, inserts no entry and
\* leaves the lifetime-used counter unchanged.
C6_InsufficientDeductRejected ==
    [][\A p \in Procs, u \in Accounts, a \in DeductAmounts :
          (deduct_check(p, u, a) /\ ContractBalance(ledger, u, now) < a)
            => /\ dres'[p].outcome = "InsufficientCredits"
               /\ dres'[p].required = a
               /\ dres'[p].available < a
               /\ ledger' = ledger
               /\ users'[u].total_credits_used = users[u].total_credits_used]_vars

\* ------------------------------------------------------------------------
\* RateLimitMiddleware.dispatch
\* ------------------------------------------------------------------------
\* limit = settings.AUTHENTICATED_RATE_LIMIT for a user key, else
\* settings.ANONYMOUS_RATE_LIMIT
limit_of(k) ==
    IF k \in UserKeys THEN settings.AUTHENTICATED_RATE_LIMIT
    ELSE settings.ANONYMOUS_RATE_LIMIT

\* the sorted set stored under a key; a key whose EXPIRE time has come is gone
live(k) == IF ttl[k] # NULL /\ now >= ttl[k] THEN {} ELSE zset[k]

\* ZREMRANGEBYSCORE key lo hi: drops the members with lo <= score <= hi
zremrangebyscore(S, lo, hi) == {m \in S : ~(lo <= m /\ m <= hi)}

\* ZCARD key
zcard(S) == Cardinality(S)

\* ZADD key {str(current_time): current_time}: the member is the timestamp
\* itself, so a second request in the same second adds nothing
zadd(S, current_time) == S \cup {current_time}

\* the request itself counted in request_count
rejected_counting_self(request_count, limit) == request_count + 1 >= limit

\* if request_count >= limit: raise HTTPException(429)
rejected(request_count, limit) == request_count >= limit

dispatch(k) ==
    /\ requests < MaxRequests
    /\ LET current_time == now
           trimmed == zremrangebyscore(live(k), 0, current_time - window)
           request_count == zcard(trimmed)
           status == IF rejected(request_count, limit_of(k)) THEN 429 ELSE 200
       IN /\ zset' = [zset EXCEPT ![k] = zadd(trimmed, current_time)]
          /\ ttl' = [ttl EXCEPT ![k] = current_time + window]
          /\ rlog' = [rlog EXCEPT ![k] =
                        IF status = 200 THEN Append(@, current_time) ELSE @]
          /\ rlast' = [rlast EXCEPT ![k] =
                        [time |-> current_time, status |-> status,
                         prev_time |-> @.time, prev_status |-> @.status]]
    /\ requests' = requests + 1
    /\ UNCHANGED <<backendVars, now, ticks, settings, ledgerVars, deviceVars>>

RateTick(d) ==
    /\ ticks < MaxRateTicks
    /\ now' = now + d
    /\ ticks' = ticks + 1
    /\ UNCHANGED <<backendVars, ledgerVars, rateVars, deviceVars>>

NextRate ==
    \/ \E k \in Keys : dispatch(k)
    \/ \E d \in RateDeltas : RateTick(d)

SpecRate == InitRate /\ [][NextRate]_vars

\* C7: for every identity key at most `limit` requests are let through
\* within any 60-second window.
C7_AtMostLimitPerWindow ==
    \A k \in Keys : \A i \in DOMAIN rlog[k] :
        Cardinality({j \in DOMAIN rlog[k] :
                        /\ rlog[k][i] <= rlog[k][j]
                        /\ rlog[k][j] < rlog[k][i] + window}) <= limit_of(k)

\* C8: a request of a key whose previous request is more than the window
\* in the past is accepted.
C8_AcceptedAfterQuietWindow ==
    [][\A k \in Keys :
          (dispatch(k) /\ rlast[k].time # NULL /\ now - rlast[k].time > window)
            => rlast'[k].status = 200]_vars

\* a key that was rejected, stayed silent for more than the window and was
\* then accepted
C8_Witness ==
    \E k \in Keys :
        /\ rlast[k].status = 200
        /\ rlast[k].prev_status = 429
        /\ rlast[k].time - rlast[k].prev_time > window

\* ------------------------------------------------------------------------
\* upload_image for an anonymous client, DeviceTrackingService
\* ------------------------------------------------------------------------
\* a job row that names an account for an anonymous client as well
JobWithAccount(uid, fid, h) ==
    [user_id |-> IF uid = None THEN "anonymous" ELSE uid,
     device_fingerprint_id |-> fid, hash |-> h]

\* a row of image_jobs (the columns that name its owner); user_id is None
\* and device_fingerprint_id is NULL when not set
Job(uid, fid, h) == [user_id |-> uid, device_fingerprint_id |-> fid, hash |-> h]

\* check_anonymous_limit
check_anonymous_limit(images_processed) ==
    images_processed >= ANONYMOUS_IMAGE_LIMIT

\* the request goes on with the row it has loaded: rejected when the loaded
\* count has reached the limit, else on to increment_usage
AfterLoad(r, h, row) ==
    IF check_anonymous_limit(row.images_processed)
    THEN /\ upc' = [upc EXCEPT ![r] = "idle"]
         /\ ucall' = [ucall EXCEPT ![r] = NoUpload]
         /\ ures' = [ures EXCEPT ![r] =
                [outcome |-> "AnonymousLimitExceeded", hash |-> h]]
    ELSE /\ upc' = [upc EXCEPT ![r] = "increment"]
         /\ ucall' = [ucall EXCEPT ![r] =
                [hash |-> h, id |-> row.id,
                 images_processed |-> row.images_processed]]
         /\ UNCHANGED ures

\* get_or_create_fingerprint, the query: an existing row gets last_seen =
\* now, is committed and refreshed; otherwise the request goes on to insert
get_fingerprint(r, h) ==
    /\ upc[r] = "idle"
    /\ Len(jobs) < MaxJobs
    /\ IF h \in DOMAIN fingerprints
       THEN /\ fingerprints' = [fingerprints EXCEPT ![h].last_seen = now]
            /\ AfterLoad(r, h, fingerprints'[h])
       ELSE /\ upc' = [upc EXCEPT ![r] = "create"]
            /\ ucall' = [ucall EXCEPT ![r] = [NoUpload EXCEPT !.hash = h]]
            /\ UNCHANGED <<fingerprints, ures>>
    /\ UNCHANGED <<backendVars, now, ticks, jobs, next_id, served, ledgerVars, rateVars>>

\* get_or_create_fingerprint, the insert: images_processed = 0 and no
\* last_seen; the unique index on fingerprint_hash fails the commit when
\* another request has inserted the hash in the meantime
create_fingerprint(r) ==
    /\ upc[r] = "create"
    /\ LET h == ucall[r].hash
           row == [id |-> next_id, images_processed |-> 0, last_seen |-> NULL]
       IN IF h \in DOMAIN fingerprints
          THEN /\ upc' = [upc EXCEPT ![r] = "idle"]
               /\ ucall' = [ucall EXCEPT ![r] = NoUpload]
               /\ ures' = [ures EXCEPT ![r] =
                      [outcome |-> "IntegrityError", hash |-> h]]
               /\ UNCHANGED <<fingerprints, next_id>>
          ELSE /\ fingerprints' = [g \in DOMAIN fingerprints \cup {h} |->
                      IF g = h THEN row ELSE fingerprints[g]]
               /\ next_id' = next_id + 1
               /\ AfterLoad(r, h, row)
    /\ UNCHANGED <<backendVars, now, ticks, jobs, served, ledgerVars, rateVars>>

\* increment_usage: the count loaded earlier plus one is written back; the
\* UPDATE matches no row when the row was deleted (StaleDataError)
increment_usage(r) ==
    /\ upc[r] = "increment"
    /\ LET h == ucall[r].hash
       IN IF h \in DOMAIN fingerprints /\ fingerprints[h].id = ucall[r].id
          THEN /\ fingerprints' = [fingerprints EXCEPT
                      ![h].images_processed = ucall[r].images_processed + 1,
                      ![h].last_seen = now]
               /\ upc' = [upc EXCEPT ![r] = "store"]
               /\ UNCHANGED <<ucall, ures>>
          ELSE /\ upc' = [upc EXCEPT ![r] = "idle"]
               /\ ucall' = [ucall EXCEPT ![r] = NoUpload]
               /\ ures' = [ures EXCEPT ![r] =
                      [outcome |-> "StaleDataError", hash |-> h]]
               /\ UNCHANGED fingerprints
    /\ UNCHANGED <<backendVars, now, ticks, jobs, next_id, served, ledgerVars, rateVars>>

\* upload_to_gcs, then the job row is inserted and committed
create_job(r) ==
    /\ upc[r] = "store"
    /\ jobs' = Append(jobs, Job(None, ucall[r].id, ucall[r].hash))
    /\ served' = [served EXCEPT ![ucall[r].hash] = @ + 1]
    /\ upc' = [upc EXCEPT ![r] = "idle"]
    /\ ucall' = [ucall EXCEPT ![r] = NoUpload]
    /\ ures' = [ures EXCEPT ![r] = [outcome |-> "ok", hash |-> ucall[r].hash]]
    /\ UNCHANGED <<backendVars, now, ticks, fingerprints, next_id, ledgerVars, rateVars>>

\* upload_to_gcs or the commit of the job raises: the request ends with an
\* error and nothing is undone
upload_fails(r) ==
    /\ upc[r] = "store"
    /\ upc' = [upc EXCEPT ![r] = "idle"]
    /\ ucall' = [ucall EXCEPT ![r] = NoUpload]
    /\ ures' = [ures EXCEPT ![r] = [outcome |-> "error", hash |-> ucall[r].hash]]
    /\ UNCHANGED <<backendVars, now, ticks, fingerprints, jobs, next_id, served,
                   ledgerVars, rateVars>>

\* the rows DeviceTrackingService.cleanup_old_fingerprints deletes: last_seen
\* before the cutoff (a NULL last_seen never compares as older)
old_fingerprints(F, t) ==
    {h \in DOMAIN F :
        /\ F[h].last_seen # NULL
        /\ F[h].last_seen < t - days_old * SecondsPerDay}

cleanup_old_fingerprints ==
    /\ old_fingerprints(fingerprints, now) # {}
    /\ fingerprints' = [h \in DOMAIN fingerprints
                            \ old_fingerprints(fingerprints, now) |->
                            fingerprints[h]]
    /\ UNCHANGED <<backendVars, now, ticks, jobs, next_id, upc, ucall, ures, served,
                   ledgerVars, rateVars>>

DeviceTick ==
    /\ ticks < MaxDeviceTicks
    /\ now' = now + days_old * SecondsPerDay + 1
    /\ ticks' = ticks + 1
    /\ UNCHANGED <<backendVars, ledgerVars, rateVars, deviceVars>>

\* one request of a client
UploadStep(r) ==
    \/ \E h \in Hashes : get_fingerprint(r, h)
    \/ create_fingerprint(r)
    \/ increment_usage(r)
    \/ create_job(r)
    \/ upload_fails(r)

\* concurrent anonymous uploads, the clock and the cleanup task
NextDevice ==
    \/ \E r \in Uploads : UploadStep(r)
    \/ cleanup_old_fingerprints
    \/ DeviceTick

SpecDevice == Init /\ [][NextDevice]_vars

\* anonymous uploads one after another (a single client connection), the
\* clock and the cleanup task
NextDeviceSerial ==
    \/ UploadStep("r1")
    \/ cleanup_old_fingerprints
    \/ DeviceTick

SpecDeviceSerial == Init /\ [][NextDeviceSerial]_vars

\* the jobs accepted for a fingerprint row
JobsOf(fid) == {i \in DOMAIN jobs : jobs[i].device_fingerprint_id = fid}

\* C9: for every device fingerprint the number of accepted jobs never
\* exceeds ANONYMOUS_IMAGE_LIMIT, and neither does its usage counter.
C9_AnonymousQuotaHolds ==
    \A h \in DOMAIN fingerprints :
        /\ Cardinality(JobsOf(fingerprints[h].id)) <= ANONYMOUS_IMAGE_LIMIT
        /\ fingerprints[h].images_processed <= ANONYMOUS_IMAGE_LIMIT

\* C10: the anonymous quota is lifetime: the number of jobs ever accepted
\* for the same device signals never exceeds the limit, the cleanup task
\* included.
C10_LifetimeQuota ==
    \A h \in Hashes : served[h] <= ANONYMOUS_IMAGE_LIMIT

\* ------------------------------------------------------------------------
\* Translation jobs: crud/job.py and the worker task of tasks/image.py
\* ------------------------------------------------------------------------
\* a row of jobs as create_job inserts it: status defaults to PENDING
NewJob == [status |-> "pending", error_message |-> None, output_url |-> None,
           completed_at |-> NULL]

\* crud.create_job
crud_create_job(j) ==
    /\ j \notin DOMAIN translation_jobs
    /\ translation_jobs' = [k \in DOMAIN translation_jobs \cup {j} |->
                               IF k = j THEN NewJob ELSE translation_jobs[k]]
    /\ UNCHANGED <<now, ticks, jres, task_state, ledgerVars, rateVars, deviceVars,
                   imageVars, payVars>>

\* the job row after update_job_status: the status is assigned whatever the
\* current status is; error_message and output_url only when given;
\* completed_at when the new status is COMPLETED, FAILED or CANCELLED
updated_job(job, status, error_message, output_url, t) ==
    [status |-> status,
     error_message |-> IF error_message # None THEN error_message
                       ELSE job.error_message,
     output_url |-> IF output_url # None THEN output_url ELSE job.output_url,
     completed_at |-> IF status \in {"completed", "failed", "cancelled"}
                      THEN t ELSE job.completed_at]

\* crud.update_job_status(db, job_id, status, error_message, output_url):
\* returns None for an unknown id, else the updated job
update_job_status(j, status, error_message, output_url) ==
    /\ IF j \in DOMAIN translation_jobs
       THEN /\ translation_jobs' = [translation_jobs EXCEPT ![j] =
                    updated_job(@, status, error_message, output_url, now)]
            /\ jres' = [jres EXCEPT ![j] = "job"]
       ELSE /\ jres' = [jres EXCEPT ![j] = None]
            /\ UNCHANGED translation_jobs
    /\ <<translation_jobs, jres>>' # <<translation_jobs, jres>>
    /\ UNCHANGED <<now, ticks, task_state, ledgerVars, rateVars, deviceVars,
                   imageVars, payVars>>

\* How Python binds a call of update_job_status(db, job_id, status, ...)
\* made with the positional arguments args: fewer than the three required
\* parameters is a TypeError; a first argument that is no Session fails in
\* get_job at db.query with an AttributeError.
bind_update_job_status(args) ==
    IF Len(args) < 3 THEN "TypeError"
    ELSE IF args[1] # "db" THEN "AttributeError"
    ELSE "ok"

\* One delivery of the task process_image_translation for job j (the queue
\* delivers at least once).  Its first effect is the start transition,
\* update_job_status(job_id, JobStatus.PROCESSING): the call does not bind,
\* the except clause wraps the error in a ProcessingException and the task
\* fails.  by_keyword tells whether job_id was passed as a keyword.
process_image_translation(j, by_keyword) ==
    /\ task_state[j].outcome = "none"
    /\ bind_update_job_status(<<"job_id", "status">>) # "ok"
    /\ task_state' = [task_state EXCEPT ![j] =
            [outcome |-> "ProcessingException",
             cause |-> bind_update_job_status(<<"job_id", "status">>),
             on_failure |-> IF by_keyword THEN "due" ELSE "skipped"]]
    /\ UNCHANGED <<now, ticks, translation_jobs, jres, ledgerVars, rateVars,
                   deviceVars, imageVars, payVars>>

\* ImageProcessingTask.on_failure: with job_id among the keyword arguments
\* it calls update_job_status(job_id, JobStatus.FAILED, str(exc)), which
\* fails in turn; the task is then acknowledged and can be delivered again
on_failure(j) ==
    /\ task_state[j].outcome = "ProcessingException"
    /\ task_state' = [task_state EXCEPT ![j] =
            [outcome |-> "none", cause |-> @.cause,
             on_failure |-> IF @.on_failure = "due"
                            THEN bind_update_job_status(
                                    <<"job_id", "status", "error_message">>)
                            ELSE @.on_failure]]
    /\ UNCHANGED <<now, ticks, translation_jobs, jres, ledgerVars, rateVars,
                   deviceVars, imageVars, payVars>>

JobTick ==
    /\ ticks < MaxJobTicks
    /\ now' = now + 1
    /\ ticks' = ticks + 1
    /\ UNCHANGED <<ledgerVars, rateVars, deviceVars, backendVars>>

\* the job table, its callers and the worker
NextJob ==
    \/ \E j \in JobIds : crud_create_job(j)
    \/ \E j \in JobIds, st \in JobStatus, e \in ErrorMessages, o \in OutputUrls :
          update_job_status(j, st, e, o)
    \/ \E j \in JobIds, kw \in BOOLEAN : process_image_translation(j, kw)
    \/ \E j \in JobIds : on_failure(j)
    \/ JobTick

SpecJob == Init /\ [][NextJob]_vars

\* C11: once a job is Completed or Failed, no later operation changes its
\* status, error message, output reference or completion timestamp.
C11_TerminalAbsorbing ==
    [][\A j \in DOMAIN translation_jobs :
          translation_jobs[j].status \in {"completed", "failed"}
            => translation_jobs'[j] = translation_jobs[j]]_vars

\* C12: a start signal (a delivery of the worker task) for a job that is
\* already Processing is a no-op: it raises no error and changes no field of
\* the job.
C12_StartIdempotent ==
    [][\A j \in DOMAIN translation_jobs, kw \in BOOLEAN :
          (process_image_translation(j, kw)
              /\ translation_jobs[j].status = "processing")
            => /\ translation_jobs' = translation_jobs
               /\ task_state'[j].outcome = "none"]_vars

\* ------------------------------------------------------------------------
\* upload_image for an authenticated client
\* ------------------------------------------------------------------------
\* CreditService.calculate_image_cost: [raised, val].  The branch for files
\* of 10 MB and more reads settings.CREDIR_COST_LARGE, which Settings does
\* not define: AttributeError.
calculate_image_cost(file_size_mb) ==
    IF file_size_mb < 10 THEN [raised |-> FALSE, val |-> CREDIT_COST_SMALL]
    ELSE [raised |-> TRUE, val |-> 0]

\* a row of image_jobs as upload_image inserts it (the processing columns):
\* processing_status and webhook_sent take their column defaults
NewImageJob(credit_cost, webhook_url) ==
    [processing_status |-> "pending", error_message |-> None,
     output_image_path |-> None, credits_used |-> credit_cost,
     webhook_url |-> webhook_url, webhook_sent |-> FALSE]

\* How Python binds process_image_async(job_id, input_path, source_lang,
\* target_lang, user_id=None, webhook_url=None) to positional arguments
bind_process_image_async(args) ==
    [job_id |-> args[1],
     user_id |-> IF Len(args) >= 5 THEN args[5] ELSE None,
     webhook_url |-> IF Len(args) >= 6 THEN args[6] ELSE None]

\* a background task that has not run yet
NewTask(bound) ==
    [job_id |-> bound.job_id, user_id |-> bound.user_id,
     webhook_url |-> bound.webhook_url, pc |-> "queued", attempt |-> 0,
     log |-> << >>, raised |-> FALSE]

\* lines 76-85: the cost and the balance check; get_user_credits commits
\* the cached balance
auth_check(r, u, file_size_mb, webhook_url) ==
    /\ apc[r] = "idle"
    /\ u \in DOMAIN users
    /\ Len(jobs) < MaxJobs
    /\ LET c == calculate_image_cost(file_size_mb)
           a == get_user_credits(users, ledger, u, now)
       IN IF c.raised
          THEN /\ ares' = [ares EXCEPT ![r] =
                      [outcome |-> "AttributeError", job |-> 0]]
               /\ UNCHANGED <<users, apc, acall>>
          ELSE /\ users' = UsersAfterGet(users, ledger, u, now)
               /\ IF a.raised
                  THEN /\ ares' = [ares EXCEPT ![r] =
                              [outcome |-> "MultipleResultsFound", job |-> 0]]
                       /\ UNCHANGED <<apc, acall>>
                  ELSE IF a.val < c.val
                  THEN /\ ares' = [ares EXCEPT ![r] =
                              [outcome |-> "InsufficientCredits", job |-> 0]]
                       /\ UNCHANGED <<apc, acall>>
                  ELSE /\ apc' = [apc EXCEPT ![r] = "store"]
                       /\ acall' = [acall EXCEPT ![r] =
                              [user_id |-> u, cost |-> c.val,
                               webhook_url |-> webhook_url, job |-> 0]]
                       /\ UNCHANGED ares
    /\ UNCHANGED <<now, ticks, ledger, dpc, dcall, dres, rateVars, deviceVars,
                   image_status, background, jobVars, payVars>>

\* lines 87-106: upload_to_gcs, then the job row is inserted and committed
auth_store(r) ==
    /\ apc[r] = "store"
    /\ LET id == Len(jobs) + 1
       IN /\ jobs' = Append(jobs, Job(acall[r].user_id, NULL, ""))
          /\ image_status' = [k \in DOMAIN image_status \cup {id} |->
                IF k = id
                THEN NewImageJob(acall[r].cost, acall[r].webhook_url)
                ELSE image_status[k]]
          /\ acall' = [acall EXCEPT ![r].job = id]
    /\ apc' = [apc EXCEPT ![r] = "deduct"]
    /\ UNCHANGED <<now, ticks, ledgerVars, rateVars, fingerprints, next_id,
                   upc, ucall, ures, served, background, ares, jobVars,
                   payVars>>

\* lines 109-115, deduct_credits up to its balance check: an exception ends
\* the request, after the job was committed and before add_task
auth_deduct_check(r) ==
    /\ apc[r] = "deduct"
    /\ LET u == acall[r].user_id
           a == get_user_credits(users, ledger, u, now)
       IN /\ users' = UsersAfterGet(users, ledger, u, now)
          /\ IF a.raised \/ a.val < acall[r].cost
             THEN /\ ares' = [ares EXCEPT ![r] =
                        [outcome |-> IF a.raised THEN "MultipleResultsFound"
                                     ELSE "InsufficientCredits",
                         job |-> acall[r].job]]
                  /\ apc' = [apc EXCEPT ![r] = "idle"]
                  /\ acall' = [acall EXCEPT ![r] = NoAuthUpload]
             ELSE /\ apc' = [apc EXCEPT ![r] = "insert"]
                  /\ UNCHANGED <<acall, ares>>
    /\ UNCHANGED <<now, ticks, ledger, dpc, dcall, dres, rateVars, deviceVars,
                   image_status, background, jobVars, payVars>>

\* deduct_credits, the insert of the Usage entry; then lines 117-127: the
\* background task is added with five positional arguments and the response
\* is returned
auth_deduct_insert(r) ==
    /\ apc[r] = "insert"
    /\ Len(ledger) < MaxLedger
    /\ LET u == acall[r].user_id
           amount == acall[r].cost
       IN /\ ledger' = Append(ledger, debit_entry(u, amount))
          /\ users' = [users EXCEPT
                ![u].total_credits_used = @ + amount,
                ![u].credits_balance = @ - amount]
    /\ background' = Append(background,
            NewTask(bind_process_image_async(
                <<acall[r].job, "input_path", "source_language",
                  "target_language", acall[r].webhook_url>>)))
    /\ ares' = [ares EXCEPT ![r] = [outcome |-> "ok", job |-> acall[r].job]]
    /\ apc' = [apc EXCEPT ![r] = "idle"]
    /\ acall' = [acall EXCEPT ![r] = NoAuthUpload]
    /\ UNCHANGED <<now, ticks, dpc, dcall, dres, rateVars, deviceVars,
                   image_status, jobVars, payVars>>

AuthUploadStep(r) ==
    \/ \E u \in Uploaders, m \in FileSizesMb, w \in WebhookUrls :
          auth_check(r, u, m, w)
    \/ auth_store(r)
    \/ auth_deduct_check(r)
    \/ auth_deduct_insert(r)

\* ------------------------------------------------------------------------
\* ImageProcessingService.process_image_async and send_webhook
\* ------------------------------------------------------------------------
\* the mapped attributes of ImageJob
ImageJobColumns ==
    {"id", "user_id", "device_fingerprint_id", "original_filename",
     "file_size_bytes", "content_type", "input_image_path",
     "output_image_path", "source_language", "target_language",
     "processing_status", "text_blocks_detected", "text_blocks_translated",
     "ocr_confidence", "credits_used", "processing_started_at",
     "processing_completed_at", "error_message", "webhook_url",
     "webhook_sent", "created_at", "updated_at"}

\* the keyword arguments of the ImageJob(...) call at lines 148-154
ProcessKwargs ==
    {"user_id", "status", "target_language", "source_language", "webhook_url"}

\* the constructor of a declarative model: a keyword that names no attribute
\* of the class is a TypeError
declarative_constructor(kwargs) ==
    IF kwargs \subseteq ImageJobColumns THEN "ok" ELSE "TypeError"

\* the task after the except clause (lines 213-224) has marked the job
\* Failed: send_webhook is called when webhook_url is set
after_failure(task) ==
    [task EXCEPT !.pc = IF task.webhook_url # None THEN "post" ELSE "done"]

\* the job row left as it was when send_webhook is called
unchanged_job(row, e) == row

\* lines 215-218: the job row marked Failed with the text of the exception,
\* and committed
failed_job(row, e) ==
    [row EXCEPT !.processing_status = "failed", !.error_message = e]

\* One run of process_image_async.  Its first statement builds a second
\* ImageJob with the keyword status, which ImageJob does not have: the
\* TypeError is caught at line 213, the job named by job_id is loaded and
\* marked Failed with the text of the exception, and the webhook is sent
\* when the task's webhook_url is set.
process_image_async(t) ==
    /\ t \in DOMAIN background
    /\ background[t].pc = "queued"
    /\ declarative_constructor(ProcessKwargs) = "TypeError"
    /\ background[t].job_id \in DOMAIN image_status
    /\ image_status' = [image_status EXCEPT ![background[t].job_id] =
            failed_job(@, "TypeError")]
    /\ background' = [background EXCEPT ![t] = after_failure(@)]
    /\ UNCHANGED <<now, ticks, ledgerVars, rateVars, deviceVars, apc, acall,
                   ares, jobVars, payVars>>

\* the tasks that were given a webhook target
WebhookTasks == {t \in DOMAIN background : background[t].webhook_url # None}

\* process_image_async called with its webhook_url parameter for job j; the
\* calls are made one after another
process_image_async_call(j, webhook_url) ==
    /\ j \in DOMAIN image_status
    /\ webhook_url # None
    /\ Cardinality(WebhookTasks) < MaxTasks
    /\ \A t \in WebhookTasks : background[t].pc = "done"
    /\ background' = Append(background,
            NewTask([job_id |-> j, user_id |-> None,
                     webhook_url |-> webhook_url]))
    /\ UNCHANGED <<now, ticks, ledgerVars, rateVars, deviceVars, image_status,
                   apc, acall, ares, jobVars, payVars>>

\* the loop header with one attempt more than range(WEBHOOK_MAX_RETRIES)
retry_inclusive(attempt) == attempt <= WEBHOOK_MAX_RETRIES

\* for attempt in range(settings.WEBHOOK_MAX_RETRIES)
retry(attempt) == attempt < WEBHOOK_MAX_RETRIES

\* the except clause letting the last failure out of send_webhook
after_exception_raising(attempt) ==
    IF attempt = WEBHOOK_MAX_RETRIES - 1 THEN "raise" ELSE "sleep"

\* the except clause of an attempt: the last attempt is logged, any other
\* is followed by asyncio.sleep(2 ** attempt)
after_exception(attempt) ==
    IF attempt = WEBHOOK_MAX_RETRIES - 1 THEN "log" ELSE "sleep"

\* the task after one more iteration of the loop has been entered or not
next_attempt(task) ==
    [task EXCEPT !.attempt = @ + 1,
                 !.pc = IF retry(task.attempt + 1) THEN "post" ELSE "done"]

\* One attempt of send_webhook: client.post answers with a status code or
\* raises.  Status 200 leaves the loop; any other status goes on to the next
\* attempt at once; an exception is handled by the except clause.
send_webhook_post(t, response) ==
    /\ t \in DOMAIN background
    /\ background[t].pc = "post"
    /\ LET task == background[t]
           posted == [task EXCEPT !.log =
                        Append(@, [op |-> "post", val |-> response])]
           slept == [posted EXCEPT !.log =
                        Append(@, [op |-> "sleep", val |-> 2 ^ task.attempt])]
       IN background' = [background EXCEPT ![t] =
            IF response # NoResponse
            THEN IF response = 200 THEN [posted EXCEPT !.pc = "done"]
                 ELSE next_attempt(posted)
            ELSE IF after_exception(task.attempt) = "sleep"
                 THEN next_attempt(slept)
                 ELSE IF after_exception(task.attempt) = "raise"
                 THEN [posted EXCEPT !.pc = "done", !.raised = TRUE]
                 ELSE next_attempt(posted)]
    /\ UNCHANGED <<now, ticks, ledgerVars, rateVars, deviceVars, image_status,
                   apc, acall, ares, jobVars, payVars>>

\* the delivery attempts a task has made
Posts(task) == {i \in DOMAIN task.log : task.log[i].op = "post"}

\* concurrent authenticated uploads and their background tasks
NextUpload ==
    \/ \E u \in Uploaders : get_or_create_user(u)
    \/ \E r \in Uploads : AuthUploadStep(r)
    \/ \E t \in 1..MaxJobs : process_image_async(t)

SpecUpload == Init /\ [][NextUpload]_vars

\* one uploaded job, process_image_async called with a webhook target, and
\* the deliveries; a delivery attempt that is due is eventually made
NextWebhook ==
    \/ \E u \in Uploaders : get_or_create_user(u)
    \/ /\ jobs = << >>
       /\ \E u \in Uploaders, m \in FileSizesMb, w \in WebhookUrls :
             auth_check("r1", u, m, w)
    \/ auth_store("r1")
    \/ auth_deduct_check("r1")
    \/ auth_deduct_insert("r1")
    \/ \E t \in 1..(MaxJobs + MaxTasks) : process_image_async(t)
    \/ \E j \in 1..MaxJobs, w \in WebhookUrls : process_image_async_call(j, w)
    \/ \E t \in 1..(MaxJobs + MaxTasks), o \in Responses :
          send_webhook_post(t, o)

SpecWebhook ==
    /\ Init
    /\ [][NextWebhook]_vars
    /\ \A t \in 1..(MaxJobs + MaxTasks) :
          WF_vars(\E o \in Responses : send_webhook_post(t, o))

\* C13: every job created by upload_image reaches Completed or Failed: a job
\* that is still Pending or Processing always has its upload request or its
\* background task left to move it on.
C13_NoJobLeftBehind ==
    \A j \in DOMAIN image_status :
        image_status[j].processing_status \in {"pending", "processing"}
          => \/ \E r \in Uploads :
                    apc[r] \in {"deduct", "insert"} /\ acall[r].job = j
             \/ \E t \in DOMAIN background :
                    background[t].job_id = j /\ background[t].pc = "queued"

\* the background tasks of job j
TasksOf(j) == {t \in DOMAIN background : background[t].job_id = j}

\* C14: once a job submitted with a webhook URL is Completed or Failed and
\* its task has ended, a delivery attempt has been made; for a job without
\* a webhook URL none is ever made.
C14_WebhookAttempted ==
    \A j \in DOMAIN image_status :
        /\ ( /\ image_status[j].webhook_url # None
             /\ image_status[j].processing_status \in {"completed", "failed"}
             /\ TasksOf(j) # {}
             /\ \A t \in TasksOf(j) : background[t].pc = "done" )
              => \E t \in TasksOf(j) : Posts(background[t]) # {}
        /\ image_status[j].webhook_url = None
              => \A t \in TasksOf(j) : Posts(background[t]) = {}

\* C15: every call of send_webhook makes at least one and at most
\* WEBHOOK_MAX_RETRIES delivery attempts, whatever the target answers, and
\* the call ends.
C15_AttemptsBounded ==
    /\ [](\A t \in DOMAIN background :
            /\ Cardinality(Posts(background[t])) <= WEBHOOK_MAX_RETRIES
            /\ (background[t].pc = "done" /\ background[t].webhook_url # None)
                  => Cardinality(Posts(background[t])) >= 1)
    /\ \A t \in 1..(MaxJobs + MaxTasks) :
          (t \in DOMAIN background /\ background[t].pc = "post")
            ~> (t \in DOMAIN background /\ background[t].pc = "done")

\* a call that used all its attempts, one answered with an error status and
\* one ended by a timeout
C15_Witness ==
    \E t \in DOMAIN background :
        /\ background[t].pc = "done"
        /\ Cardinality(Posts(background[t])) = WEBHOOK_MAX_RETRIES
        /\ \E i \in Posts(background[t]) : background[t].log[i].val = 500
        /\ \E i \in Posts(background[t]) : background[t].log[i].val = NoResponse

\* C16: a delivery attempt of send_webhook, failed or not, raises nothing to
\* the caller, leaves every job row as it is and leaves the job's
\* webhook_sent flag false.
C16_WebhookFailureLeavesJob ==
    [][\A t \in DOMAIN background, o \in Responses :
          send_webhook_post(t, o)
            => /\ image_status' = image_status
               /\ ~background'[t].raised
               /\ ~image_status'[background[t].job_id].webhook_sent]_vars

\* a call whose attempts all ended in a timeout, for a job that is Failed
C16_Witness ==
    \E t \in DOMAIN background :
        /\ background[t].pc = "done"
        /\ Cardinality(Posts(background[t])) = WEBHOOK_MAX_RETRIES
        /\ \A i \in Posts(background[t]) : background[t].log[i].val = NoResponse
        /\ image_status[background[t].job_id].processing_status = "failed"
        /\ ~image_status[background[t].job_id].webhook_sent

\* ------------------------------------------------------------------------
\* Payments: initialize_payment and the gateway webhook (api/v1/payments.py)
\* ------------------------------------------------------------------------
\* initialize_payment: the gateway call succeeded with a fresh tx_ref and
\* the Pending PURCHASE entry is inserted, without expires_at
initialize_payment(u, ref, credits) ==
    /\ u \in DOMAIN users
    /\ ref \notin DOMAIN purchases
    /\ Len(ledger) < MaxPayLedger
    /\ ledger' = Append(ledger, Entry(u, "purchase", "pending", credits, NULL, 0))
    /\ purchases' = [k \in DOMAIN purchases \cup {ref} |->
                        IF k = ref
                        THEN [id |-> Len(ledger) + 1, payment_reference |-> None]
                        ELSE purchases[k]]
    /\ UNCHANGED <<now, ticks, users, dpc, dcall, dres, hook, handlers, rateVars,
                   deviceVars, jobVars, imageVars>>

\* a raw request body: text that is not JSON, or a JSON object with the
\* fields event and data.tx_ref
NoBody == [json |-> FALSE, event |-> "", tx_ref |-> None]
Bodies ==
    {NoBody} \cup [json : {TRUE}, event : Events,
                   tx_ref : TxRefs \cup UnknownRefs \cup {None}]

\* data.flw_ref: the gateway's confirmation reference, one per charge
flw_ref(ref) == IF ref = "tx1" THEN "flw1" ELSE "flw9"

\* hmac.new(key, msg, sha256).hexdigest(): distinct keys or messages give
\* distinct digests
hmac_sha256(key, msg) == [key |-> key, msg |-> msg]

\* the values of the verif-hash header sent with a body: absent, a string
\* that is no digest ("abc123"), a string with a character outside ASCII,
\* the digest of the body under the shared or another secret, or the digest
\* of another body under the shared secret
NoSignature == [key |-> "", msg |-> NoBody]
Garbage == [key |-> "abc123", msg |-> NoBody]
NonAscii == [key |-> "non-ascii", msg |-> NoBody]
OtherBody == [json |-> TRUE, event |-> "charge.completed", tx_ref |-> "tx1"]
Signatures(body) ==
    {NoSignature, Garbage, NonAscii,
     hmac_sha256(FLUTTERWAVE_WEBHOOK_SECRET, OtherBody)}
        \cup {hmac_sha256(k, body) :
                k \in {FLUTTERWAVE_WEBHOOK_SECRET} \cup OtherSecrets}

\* the comparison left out
signature_unchecked(signature, expected_signature) == TRUE

\* hmac.compare_digest(signature, expected_signature)
compare_digest(signature, expected_signature) == signature = expected_signature

\* the lookup falling back on some stored purchase
first_or_any_transaction(P, ref) ==
    IF ref \in DOMAIN P THEN P[ref].id
    ELSE IF DOMAIN P # {} THEN P[CHOOSE k \in DOMAIN P : TRUE].id
    ELSE 0

\* query(CreditTransaction).filter(flutterwave_tx_ref == tx_ref).first():
\* the id of the entry, 0 for none
first_transaction(P, ref) == IF ref \in DOMAIN P THEN P[ref].id ELSE 0

\* the guard of handle_failed_payment dropped
may_fail_any(status) == TRUE

\* transaction.status == TransactionStatus.PENDING
may_fail(status) == status = "pending"

\* the response of payment_webhook
Respond(code, detail, parsed, body) ==
    hook' = [status_code |-> code, detail |-> detail, parsed |-> parsed,
             event |-> IF parsed THEN body.event ELSE "",
             tx_ref |-> IF parsed THEN body.tx_ref ELSE None]

\* the entry add_credits inserts for the purchase with id tx; its
\* description, "Credit purchase: {tx_ref}", names the purchase
purchase_credit(L, tx, t) ==
    [added_entry(L[tx].user_id, L[tx].credits_amount, t) EXCEPT !.descr_tx = tx]

\* handle_successful_payment: nothing for a missing or unknown tx_ref or a
\* Completed transaction; otherwise the transaction is marked Completed,
\* the gateway reference stored and add_credits called with its amount
handle_successful_payment(body) ==
    LET tx == first_transaction(purchases, body.tx_ref)
    IN IF body.tx_ref = None \/ tx = 0
       THEN UNCHANGED <<ledger, users, purchases>>
       ELSE IF ledger[tx].status = "completed"
       THEN UNCHANGED <<ledger, users, purchases>>
       ELSE /\ Len(ledger) < MaxPayLedger
            /\ ledger' = Append([ledger EXCEPT ![tx].status = "completed"],
                                purchase_credit(ledger, tx, now))
            /\ users' = [users EXCEPT ![ledger[tx].user_id] =
                            added_user(@, ledger[tx].credits_amount)]
            /\ purchases' = [purchases EXCEPT
                    ![body.tx_ref].payment_reference = flw_ref(body.tx_ref)]

\* handle_failed_payment: a Pending transaction becomes Failed
handle_failed_payment(body) ==
    LET tx == first_transaction(purchases, body.tx_ref)
    IN IF body.tx_ref # None /\ tx # 0 /\ may_fail(ledger[tx].status)
       THEN /\ ledger' = [ledger EXCEPT ![tx].status = "failed"]
            /\ UNCHANGED <<users, purchases>>
       ELSE UNCHANGED <<ledger, users, purchases>>

\* POST /payments/webhook with the header value signature and the raw body;
\* hmac.compare_digest raises TypeError for a str that is not ASCII, outside
\* the try block, so the request ends as an unhandled error
payment_webhook(signature, body) ==
    /\ LET expected_signature == hmac_sha256(FLUTTERWAVE_WEBHOOK_SECRET, body)
       IN IF signature = NoSignature
          THEN /\ Respond(400, "Missing webhook signature", FALSE, body)
               /\ UNCHANGED <<ledger, users, purchases>>
          ELSE IF signature = NonAscii
          THEN /\ Respond(500, "Internal Server Error", FALSE, body)
               /\ UNCHANGED <<ledger, users, purchases>>
          ELSE IF ~compare_digest(signature, expected_signature)
          THEN /\ Respond(400, "Invalid signature", FALSE, body)
               /\ UNCHANGED <<ledger, users, purchases>>
          ELSE IF ~body.json
          THEN /\ Respond(500, "Webhook processing failed", FALSE, body)
               /\ UNCHANGED <<ledger, users, purchases>>
          ELSE /\ Respond(200, "success", TRUE, body)
               /\ IF body.event = "charge.completed"
                  THEN handle_successful_payment(body)
                  ELSE IF body.event = "charge.failed"
                  THEN handle_failed_payment(body)
                  ELSE UNCHANGED <<ledger, users, purchases>>
    /\ <<ledger, users, purchases, hook>>' # <<ledger, users, purchases, hook>>
    /\ UNCHANGED <<now, ticks, dpc, dcall, dres, handlers, rateVars, deviceVars,
                   jobVars, imageVars>>

\* accounts, purchases, payment events, deductions one at a time, the clock
NextPayment ==
    \/ \E u \in Payers : get_or_create_user(u)
    \/ \E u \in Payers, ref \in TxRefs, c \in PackageCredits :
          initialize_payment(u, ref, c)
    \/ \E b \in Bodies : \E sig \in Signatures(b) : payment_webhook(sig, b)
    \/ \E u \in Payers, a \in PayDeductAmounts : deduct_check("p1", u, a)
    \/ deduct_insert("p1")
    \/ \E d \in LedgerDeltas : LedgerTick(d)

SpecPayment == Init /\ [][NextPayment]_vars

\* a request that carries the digest of its own body under the shared secret
Signed(b) == hmac_sha256(FLUTTERWAVE_WEBHOOK_SECRET, b)

\* C17: a payment webhook request whose signature is not the HMAC of its
\* raw body under the shared secret is rejected before the body is parsed,
\* and no transaction, ledger entry or account field changes.
C17_BadSignatureRejected ==
    [][\A b \in Bodies : \A sig \in Signatures(b) :
          (payment_webhook(sig, b) /\ sig # Signed(b))
            => /\ hook'.status_code \in {400, 500}
               /\ hook'.detail # "Webhook processing failed"
               /\ ~hook'.parsed
               /\ <<ledger, users, purchases>>' = <<ledger, users, purchases>>]_vars

\* a request with a wrong signature was rejected while a purchase was Pending
C17_Witness ==
    /\ hook.detail = "Invalid signature"
    /\ \E ref \in DOMAIN purchases : ledger[purchases[ref].id].status = "pending"

\* C18: the first successful-charge event for a Pending purchase marks it
\* Completed and raises the value get_user_credits returns for the account
\* by exactly the purchased amount; a replay of the event changes nothing.
C18_ReplayAppliesOnce ==
    [][\A b \in Bodies :
          ( /\ payment_webhook(Signed(b), b)
            /\ b.json /\ b.event = "charge.completed"
            /\ b.tx_ref \in DOMAIN purchases )
            => LET tx == purchases[b.tx_ref].id
                   u == ledger[tx].user_id
                   before == get_user_credits(users, ledger, u, now)
                   after == get_user_credits(users', ledger', u, now')
               IN /\ ledger[tx].status = "pending"
                       => /\ ledger'[tx].status = "completed"
                          /\ ~before.raised
                               => after = [raised |-> FALSE,
                                           val |-> before.val
                                                     + ledger[tx].credits_amount]
                  /\ ledger[tx].status = "completed"
                       => <<ledger, users, purchases>>'
                             = <<ledger, users, purchases>>]_vars

\* C19: a failed-charge event changes a Pending transaction to Failed and
\* nothing else: no entry is inserted, no other entry, no account row and no
\* balance changes, and a transaction that is not Pending stays as it is.
C19_FailedChargeOnlyMarksFailed ==
    [][\A b \in Bodies :
          ( /\ payment_webhook(Signed(b), b)
            /\ b.json /\ b.event = "charge.failed" )
            => /\ users' = users
               /\ purchases' = purchases
               /\ Len(ledger') = Len(ledger)
               /\ \A i \in DOMAIN ledger :
                     ledger'[i] =
                        IF /\ b.tx_ref \in DOMAIN purchases
                           /\ purchases[b.tx_ref].id = i
                           /\ ledger[i].status = "pending"
                        THEN [ledger[i] EXCEPT !.status = "failed"]
                        ELSE ledger[i]
               /\ \A u \in Payers :
                     get_user_credits(users', ledger', u, now')
                        = get_user_credits(users, ledger, u, now)]_vars

\* a failed-charge event has marked the purchase of an account Failed
C19_Witness ==
    /\ hook.event = "charge.failed"
    /\ hook.status_code = 200
    /\ hook.tx_ref \in DOMAIN purchases
    /\ ledger[purchases[hook.tx_ref].id].status = "failed"
    /\ ledger[purchases[hook.tx_ref].id].user_id \in DOMAIN users

\* C20: a correctly signed charge event whose transaction reference matches
\* no stored transaction is answered with success and changes no
\* transaction, ledger entry or account field.
C20_UnknownReferenceIgnored ==
    [][\A b \in Bodies :
          ( /\ payment_webhook(Signed(b), b)
            /\ b.json /\ b.event \in {"charge.completed", "charge.failed"}
            /\ b.tx_ref # None /\ b.tx_ref \notin DOMAIN purchases )
            => /\ hook'.status_code = 200
               /\ <<ledger, users, purchases>>' = <<ledger, users, purchases>>]_vars

\* an event for an unknown reference was answered with success while a
\* purchase was Pending
C20_Witness ==
    /\ hook.status_code = 200
    /\ hook.event = "charge.completed"
    /\ hook.tx_ref \in UnknownRefs
    /\ \E ref \in DOMAIN purchases : ledger[purchases[ref].id].status = "pending"

\* ------------------------------------------------------------------------
\* The ledger under payments, credits, deductions and the expiry task
\* ------------------------------------------------------------------------
NextPayLedger ==
    \/ NextPayment
    \/ \E u \in Payers, a \in CreditAmounts : add_credits(u, a)
    \/ \E u \in Payers : get_credit_balance(u)
    \/ expire_old_credits

SpecPayLedger == Init /\ [][NextPayLedger]_vars

\* C21: once a ledger entry is Completed, no operation and no payment event
\* changes its status or its amount; the expiry task only inserts Penalty
\* entries, and a charge.failed event after charge.completed leaves the
\* purchase Completed.
C21_CompletedEntryImmutable ==
    [][\A i \in DOMAIN ledger :
          ledger[i].status = "completed"
            => /\ i \in DOMAIN ledger'
               /\ ledger'[i].status = "completed"
               /\ ledger'[i].credits_amount = ledger[i].credits_amount]_vars

\* a charge.failed event was handled for a purchase that is Completed
C21_Witness ==
    /\ hook.event = "charge.failed"
    /\ hook.status_code = 200
    /\ hook.tx_ref \in DOMAIN purchases
    /\ ledger[purchases[hook.tx_ref].id].status = "completed"
    /\ ledger[purchases[hook.tx_ref].id].transaction_type = "purchase"

\* the Completed Purchase entries of an account
completed_purchases(L, u) ==
    {i \in DOMAIN L :
        /\ L[i].user_id = u
        /\ L[i].transaction_type = "purchase"
        /\ L[i].status = "completed"}

\* C22: the lifetime-purchased counter of an account counts Purchase
\* entries only: it equals the total of the account's Completed purchases,
\* so the signup bonus and refunds leave it unchanged.
C22_LifetimePurchasedCountsPurchases ==
    \A u \in DOMAIN users :
        users[u].total_credits_purchased
            = SumAmounts(ledger, completed_purchases(ledger, u))

\* file sizes at and above the 10 MB threshold
LargeSizesMb == {10, 11, 12}

\* C23: calculate_image_cost returns the flat small cost for every size
\* below 10 MB and a cost that grows linearly with the size at and above
\* 10 MB; whenever upload_image computes the cost of a file, a cost is
\* returned and it is the one this rule gives.
C23_CostFlatThenLinear ==
    [][\A r \in Uploads, u \in Uploaders, m \in FileSizesMb, w \in WebhookUrls :
          auth_check(r, u, m, w)
            => /\ ~calculate_image_cost(m).raised
               /\ m < 10 => calculate_image_cost(m).val = CREDIT_COST_SMALL
               /\ \A n \in LargeSizesMb :
                     /\ ~calculate_image_cost(n).raised
                     /\ n + 2 \in LargeSizesMb
                          => /\ calculate_image_cost(n + 1).val
                                  > calculate_image_cost(n).val
                             /\ calculate_image_cost(n + 2).val
                                  - calculate_image_cost(n + 1).val
                                = calculate_image_cost(n + 1).val
                                  - calculate_image_cost(n).val]_vars

\* C24: when upload_image fails after the fingerprint increment was
\* committed and before the job is committed (the storage upload or the job
\* insert raises), the increment is compensated before the request returns:
\* the counter of the fingerprint is back at the value the request loaded.
C24_FailedUploadCompensated ==
    [][\A r \in Uploads :
          (upload_fails(r) /\ ucall[r].hash \in DOMAIN fingerprints)
            => /\ ucall[r].hash \in DOMAIN fingerprints'
               /\ fingerprints'[ucall[r].hash].images_processed
                    = ucall[r].images_processed]_vars

\* ------------------------------------------------------------------------
\* Anonymous and authenticated uploads side by side: one client of each
\* kind, and the background tasks
\* ------------------------------------------------------------------------
NextMixedUpload ==
    \/ \E u \in Uploaders : get_or_create_user(u)
    \/ AuthUploadStep("r1")
    \/ UploadStep("r1")
    \/ \E t \in 1..MaxJobs : process_image_async(t)

SpecMixedUpload == Init /\ [][NextMixedUpload]_vars

\* the jobs owned by account u, and the Completed Usage entries of u
AccountJobs(u) == {j \in DOMAIN jobs : jobs[j].user_id = u}
usage_entries(L, u) ==
    {i \in DOMAIN L :
        /\ L[i].user_id = u
        /\ L[i].transaction_type = "usage"
        /\ L[i].status = "completed"}

\* C25: while no upload_image request is in flight, every job of an account
\* has its own Completed Usage debit of the credits charged for it (as many
\* debits of the account as jobs, each of the job's amount), and every
\* anonymous job has its own increment of the fingerprint's counter.
C25_JobHasItsDebitOrIncrement ==
    (\A r \in Uploads : apc[r] = "idle" /\ upc[r] = "idle")
      => /\ \A u \in DOMAIN users :
               /\ Cardinality(AccountJobs(u))
                    = Cardinality(usage_entries(ledger, u))
               /\ \A j \in AccountJobs(u) :
                     \E i \in usage_entries(ledger, u) :
                        ledger[i].credits_amount = -image_status[j].credits_used
         /\ \A h \in DOMAIN fingerprints :
               Cardinality(JobsOf(fingerprints[h].id))
                  <= fingerprints[h].images_processed

\* C26: every job record has exactly one owner reference: the owning
\* account or the device fingerprint, never both and never neither.
C26_ExactlyOneOwner ==
    \A j \in DOMAIN jobs :
        (jobs[j].user_id # None) # (jobs[j].device_fingerprint_id # NULL)

\* a job of an account and a job of an anonymous device exist, and a
\* background task has run process_image_async
C26_Witness ==
    /\ \E j \in DOMAIN jobs : jobs[j].user_id \in Uploaders
    /\ \E j \in DOMAIN jobs : jobs[j].device_fingerprint_id # NULL
    /\ \E t \in DOMAIN background : background[t].pc = "done"

\* ------------------------------------------------------------------------
\* Two requests against a balance that covers both
\* ------------------------------------------------------------------------
\* processes p and q have each made a deduct_credits call on the same
\* account; the account holds the welcome bonus only (balance 5), the two
\* costs add up to exactly that balance (as 2.5 + 2.5 = 5.0), and no other
\* debit of the account exists
TwoRequestsForWholeBalance(p, q) ==
    /\ p # q
    /\ dres[p].outcome # "none" /\ dres[q].outcome # "none"
    /\ dres[p].user_id = dres[q].user_id
    /\ dres[p].user_id \in DOMAIN users
    /\ dpc[p] = "idle" /\ dpc[q] = "idle"
    /\ dres[p].amount + dres[q].amount = FREE_CREDITS_NEW_USER
    /\ LET u == dres[p].user_id
       IN /\ SumAmounts(ledger, credit_additions(ledger, u, now))
                = FREE_CREDITS_NEW_USER
          /\ usage_rows(ledger, u) \subseteq {dres[p].idx, dres[q].idx}

\* C27 as stated: of two such requests one succeeds and the other fails with
\* InsufficientCredits, reporting as required its cost and as available the
\* same amount (what the first request left).
C27_OneOfTwoFails ==
    \A p \in Procs, q \in Procs :
        TwoRequestsForWholeBalance(p, q)
          => \/ /\ dres[p].outcome = "ok"
                /\ dres[q].outcome = "InsufficientCredits"
                /\ dres[q].required = dres[q].amount
                /\ dres[q].available = dres[q].amount
             \/ /\ dres[q].outcome = "ok"
                /\ dres[p].outcome = "InsufficientCredits"
                /\ dres[p].required = dres[p].amount
                /\ dres[p].available = dres[p].amount

\* C27, amended: both requests succeed, in every interleaving; each has
\* inserted its Usage entry, the ledger balance is 0 and neither request
\* fails with InsufficientCredits.
C27_BothSucceed ==
    \A p \in Procs, q \in Procs :
        TwoRequestsForWholeBalance(p, q)
          => /\ dres[p].outcome = "ok" /\ dres[q].outcome = "ok"
             /\ usage_rows(ledger, dres[p].user_id) = {dres[p].idx, dres[q].idx}
             /\ dres[p].idx # dres[q].idx
             /\ ContractBalance(ledger, dres[p].user_id, now) = 0

\* the two requests ran concurrently: each checked the balance before the
\* other inserted its debit, and both succeeded
C27_Witness ==
    \E p \in Procs, q \in Procs :
        /\ TwoRequestsForWholeBalance(p, q)
        /\ dres[p].outcome = "ok" /\ dres[q].outcome = "ok"
        /\ dres[p].seen < dres[q].idx
        /\ dres[q].seen < dres[p].idx

\* the Completed credit-adding entries that carry no expiry timestamp
NoExpiryAdditions(L) ==
    {i \in DOMAIN L :
        /\ L[i].transaction_type \in CreditAdding
        /\ L[i].status = "completed"
        /\ L[i].expires_at = NULL}

\* C28: a Completed credit-adding entry without expiry timestamp contributes
\* its full amount to get_user_credits at every time: it is one of the
\* entries summed, and for an account without debits the result is the one
\* computed without the entry plus its amount.
C28_NoExpiryEntryCounts ==
    \A i \in NoExpiryAdditions(ledger) :
        LET u == ledger[i].user_id
        IN /\ i \in credit_additions(ledger, u, now)
           /\ (u \in DOMAIN users /\ usage_rows(ledger, u) = {})
                => get_user_credits(users, ledger, u, now).val
                     = get_user_credits(users, RemoveAt(ledger, i), u, now).val
                         + ledger[i].credits_amount

\* C29: a request the rate limiter rejects records no timestamp for its
\* key: after the request the key's log holds the entries of the current
\* window it held before and nothing else.
C29_RejectedRequestNotRecorded ==
    [][\A k \in Keys :
          LET trimmed == zremrangebyscore(live(k), 0, now - window)
          IN (dispatch(k) /\ rejected(zcard(trimmed), limit_of(k)))
                => zset'[k] = trimmed]_vars

\* C30: a job becomes Completed only from Processing; no operation sets a
\* job back to Pending, and none sets a Completed or Failed job back to
\* Processing.
C30_OnlyForwardTransitions ==
    [][\A j \in DOMAIN translation_jobs :
          translation_jobs'[j].status # translation_jobs[j].status
            => /\ translation_jobs'[j].status = "completed"
                    => translation_jobs[j].status = "processing"
               /\ translation_jobs'[j].status # "pending"
               /\ translation_jobs[j].status \in {"completed", "failed"}
                    => translation_jobs'[j].status # "processing"]_vars

\* ------------------------------------------------------------------------
\* Properties of the webhook delivery loop
\* ------------------------------------------------------------------------
\* the status codes that mean success
Success2xx == 200..299

\* C31: in send_webhook a 2xx response to an attempt ends the retry loop:
\* no attempt is made after one that was answered with a status code in
\* 200..299.
C31_SuccessEndsRetries ==
    \A t \in DOMAIN background :
        \A i \in Posts(background[t]) :
            background[t].log[i].val \in Success2xx
              => /\ \A k \in Posts(background[t]) : k <= i
                 /\ background[t].pc = "done"

\* the number of attempts made before entry i of the log
AttemptsBefore(task, i) == Cardinality({k \in Posts(task) : k < i})

\* C32: between two consecutive delivery attempts of send_webhook there is
\* a backoff delay that doubles with each attempt: the attempt numbered k
\* (from 0) is followed by a sleep of 2^k seconds before the next attempt,
\* whether it failed by an exception or by a non-success response.
C32_BackoffBetweenAttempts ==
    \A t \in DOMAIN background :
        LET task == background[t]
        IN \A i \in Posts(task) :
              (\E k \in Posts(task) : k > i)
                => /\ task.log[i + 1].op = "sleep"
                   /\ task.log[i + 1].val = 2 ^ AttemptsBefore(task, i)

\* C33: every delivery attempt for a job is made after the job's terminal
\* status was committed: at each attempt the job row holds the status the
\* payload reports (Failed, with the error text), and it still holds it
\* after the attempt.
C33_WebhookAfterCommit ==
    [][\A t \in DOMAIN background, o \in Responses :
          send_webhook_post(t, o)
            => /\ image_status[background[t].job_id].processing_status = "failed"
               /\ image_status[background[t].job_id].error_message = "TypeError"
               /\ image_status'[background[t].job_id].processing_status
                    = "failed"]_vars

\* a first attempt was answered with an error status and the next attempt
\* is due, for a job that is Failed
C33_Witness ==
    \E t \in DOMAIN background :
        /\ background[t].pc = "post"
        /\ Cardinality(Posts(background[t])) = 1
        /\ \A i \in Posts(background[t]) : background[t].log[i].val = 500
        /\ image_status[background[t].job_id].processing_status = "failed"

\* C34: the webhook_sent flag of a job tracks delivery: it is false until a
\* delivery attempt for the job succeeds, and it is true once send_webhook
\* has ended after an attempt answered with 200.
C34_DeliveredFlagTracksDelivery ==
    \A j \in DOMAIN image_status :
        LET delivered ==
               \E t \in TasksOf(j) :
                  /\ background[t].pc = "done"
                  /\ \E i \in Posts(background[t]) :
                        background[t].log[i].val = 200
        IN /\ image_status[j].webhook_sent
                => \E t \in TasksOf(j) : \E i \in Posts(background[t]) :
                      background[t].log[i].val = 200
           /\ delivered => image_status[j].webhook_sent

\* ------------------------------------------------------------------------
\* The cached balance and the expiry task
\* ------------------------------------------------------------------------
\* C35: while no ledger operation is in flight, the cached credits_balance
\* of every account equals the value get_user_credits computes from the
\* ledger at that instant, also after credits have expired.
C35_CachedBalanceIsLedgerBalance ==
    (\A p \in Procs : dpc[p] = "idle")
      => \A u \in DOMAIN users :
            ~get_user_credits(users, ledger, u, now).raised
              => users[u].credits_balance
                    = get_user_credits(users, ledger, u, now).val

\* C36: running expire_old_credits does not change the value
\* get_user_credits returns for any account at that instant: an expired
\* entry is not subtracted again through its Penalty entry.
C36_ExpiryRunKeepsBalance ==
    [][expire_old_credits
          => \A u \in DOMAIN users :
                get_user_credits(users', ledger', u, now')
                    = get_user_credits(users, ledger, u, now)]_vars

\* expire_old_credits has run for an account that holds an expired and an
\* unexpired entry, and the unexpired credits are still available
C36_Witness ==
    \E i \in ExpiredAdditions(ledger, now), j \in DOMAIN ledger :
        /\ ledger[j].transaction_type = "penalty"
        /\ ledger[j].descr_tx = i
        /\ \E k \in credit_additions(ledger, ledger[i].user_id, now) :
              get_user_credits(users, ledger, ledger[i].user_id, now)
                  = [raised |-> FALSE, val |-> ledger[k].credits_amount]

\* ------------------------------------------------------------------------
\* handle_successful_payment run by concurrent deliveries of an event
\* ------------------------------------------------------------------------
\* lines 122-139: the transaction is looked up by tx_ref and its status is
\* tested; the run goes on only for a transaction that is not Completed
successful_payment_load(h, ref) ==
    /\ handlers[h].pc = "idle"
    /\ first_transaction(purchases, ref) # 0
    /\ ledger[first_transaction(purchases, ref)].status # "completed"
    /\ handlers' = [handlers EXCEPT ![h] =
            [pc |-> "loaded", tx_ref |-> ref,
             tx |-> first_transaction(purchases, ref)]]
    /\ UNCHANGED <<now, ticks, ledgerVars, purchases, hook, rateVars,
                   deviceVars, jobVars, imageVars>>

\* lines 141-152: status and payment_reference are written on the loaded
\* row, add_credits inserts the credit entry and commits
successful_payment_commit(h) ==
    /\ handlers[h].pc = "loaded"
    /\ Len(ledger) < MaxPayLedger
    /\ LET tx == handlers[h].tx
       IN /\ ledger' = Append([ledger EXCEPT ![tx].status = "completed"],
                              purchase_credit(ledger, tx, now))
          /\ users' = [users EXCEPT ![ledger[tx].user_id] =
                          added_user(@, ledger[tx].credits_amount)]
          /\ purchases' = [purchases EXCEPT
                  ![handlers[h].tx_ref].payment_reference
                      = flw_ref(handlers[h].tx_ref)]
    /\ handlers' = [handlers EXCEPT ![h] = NoHandler]
    /\ UNCHANGED <<now, ticks, dpc, dcall, dres, hook, rateVars, deviceVars,
                   jobVars, imageVars>>

\* accounts, purchases, the webhook handled in one piece, and deliveries of
\* a successful-charge event handled by concurrent requests
NextPayConcurrent ==
    \/ \E u \in Payers : get_or_create_user(u)
    \/ \E u \in Payers, ref \in TxRefs, c \in PackageCredits :
          initialize_payment(u, ref, c)
    \/ \E b \in Bodies : payment_webhook(Signed(b), b)
    \/ \E h \in Handlers, ref \in TxRefs : successful_payment_load(h, ref)
    \/ \E h \in Handlers : successful_payment_commit(h)

SpecPayConcurrent == Init /\ [][NextPayConcurrent]_vars

\* the credit entries add_credits has inserted for the purchase with id tx
CreditsFor(tx) ==
    {i \in DOMAIN ledger :
        ledger[i].transaction_type = "bonus" /\ ledger[i].descr_tx = tx}

\* C37: when deliveries of the same successful-charge event are handled
\* concurrently, the purchased credits are added exactly once: there is
\* never more than one credit entry for a purchase, and a Completed
\* purchase has exactly one.
C37_ConcurrentDeliveriesCreditOnce ==
    \A ref \in DOMAIN purchases :
        /\ Cardinality(CreditsFor(purchases[ref].id)) <= 1
        /\ ledger[purchases[ref].id].status = "completed"
              => Cardinality(CreditsFor(purchases[ref].id)) = 1

\* C38: a ledger entry that is Pending, Failed or Cancelled never contributes
\* to get_user_credits (the value is the one computed without the entry),
\* and a purchase created by initialize_payment has no credit entry until a
\* successful-charge event for its reference has been processed.
C38_UnfinishedEntriesDoNotCount ==
    /\ \A i \in DOMAIN ledger : \A u \in DOMAIN users :
          ledger[i].status \in {"pending", "failed", "cancelled"}
            => get_user_credits(users, ledger, u, now)
                 = get_user_credits(users, RemoveAt(ledger, i), u, now)
    /\ \A ref \in DOMAIN purchases :
          ledger[purchases[ref].id].status # "completed"
            => CreditsFor(purchases[ref].id) = {}

\* a charge.failed event has marked a purchase Failed and the account still
\* has the welcome bonus alone
C38_Witness ==
    /\ hook.event = "charge.failed"
    /\ \E ref \in DOMAIN purchases :
          /\ ledger[purchases[ref].id].status = "failed"
          /\ get_user_credits(users, ledger, ledger[purchases[ref].id].user_id, now)
               = [raised |-> FALSE, val |-> FREE_CREDITS_NEW_USER]

\* C39: handle_successful_payment credits an account only for a transaction
\* that is still Pending: a successful-charge event for a transaction
\* already marked Failed or Cancelled adds no credits (no ledger entry, no
\* account field changes) and leaves its status unchanged.
C39_SuccessAfterFailureIgnored ==
    [][\A b \in Bodies :
          (/\ payment_webhook(Signed(b), b)
           /\ b.event = "charge.completed"
           /\ first_transaction(purchases, b.tx_ref) # 0
           /\ ledger[first_transaction(purchases, b.tx_ref)].status
                 \in {"failed", "cancelled"})
            => <<ledger, users>>' = <<ledger, users>>]_vars

\* ------------------------------------------------------------------------
\* Uploads of an anonymous and an authenticated client while the clock runs
\* ------------------------------------------------------------------------
NextUploadClock ==
    \/ \E u \in Uploaders : get_or_create_user(u)
    \/ AuthUploadStep("r1")
    \/ UploadStep("r1")
    \/ \E d \in LedgerDeltas : LedgerTick(d)

SpecUploadClock == Init /\ [][NextUploadClock]_vars

\* C40: an upload_image request rejected because the anonymous device limit
\* is exceeded or because the account's credits are insufficient has no side
\* effects on billing or jobs: the request has created no job record, the
\* rejecting step inserts no ledger entry, and the fingerprint's usage
\* counter is not incremented.
C40_RejectedUploadHasNoSideEffects ==
    [][/\ (/\ AuthUploadStep("r1")
           /\ apc'["r1"] = "idle"
           /\ ares'["r1"].outcome = "InsufficientCredits")
            => /\ ares'["r1"].job = 0
               /\ <<jobs, ledger>>' = <<jobs, ledger>>
       /\ (/\ UploadStep("r1")
           /\ upc'["r1"] = "idle"
           /\ ures'["r1"].outcome = "AnonymousLimitExceeded")
            => /\ <<jobs, ledger>>' = <<jobs, ledger>>
               /\ \A h \in DOMAIN fingerprints :
                     fingerprints'[h].images_processed
                        = fingerprints[h].images_processed]_vars

====
